---- MODULE Spec2Model ----
(***************************************************************************)
(* Model of bingo-generator/generate_tickets.py: the British bingo card    *)
(* generator (BritishBingoCard), the QR payload encoder (generate_qr_code) *)
(* and the batch builder (the head of generate_tickets_pdf).               *)
(*                                                                         *)
(* Every call of the random module is a nondeterministic choice.  The      *)
(* choices are exhaustive except where a bound says otherwise: a column    *)
(* with more than MaxFreeAvail available numbers is filled with one fixed  *)
(* outcome of shuffle and sample (RandomFill), and a sample of columns     *)
(* stays within a window of the population (sample_sets).  Nine free       *)
(* columns and three free rows multiply to more grids than can be          *)
(* enumerated.                                                             *)
(***************************************************************************)
EXTENDS Integers, FiniteSets, Sequences, TLC

VARIABLES
    entry,        \* the entry point being run: "generate", "generate_qr_code", "generate_tickets_pdf"
    pc,           \* position in the running code
    excluded,     \* EXCLUDED_NUMBERS as a set
    grid,         \* BritishBingoCard.grid: row (0..2) -> column (0..8) -> cell
    col,          \* loop variable of the column loop of generate()
    row_idx,      \* loop variable of _balance_rows()
    cols_to_fill, \* local of _balance_rows: the columns last sampled for filling
    cols_to_empty,\* local of _balance_rows: the columns last sampled for blanking
    num_tickets,  \* argument of generate_tickets_pdf
    ticket_ids,   \* all_ids[:num_tickets]
    t_idx,        \* number of ticket ids the ticket loop has consumed
    tickets,      \* the tickets list: <<ticket_id, card_data>> entries
    reported,     \* the count printed as "Total tickets generated", -1 before
    ticket_id,    \* argument of generate_qr_code
    card_data,    \* argument of generate_qr_code
    binary_data   \* the payload built by generate_qr_code

vars == <<entry, pc, excluded, grid, col, row_idx, cols_to_fill, cols_to_empty, num_tickets, ticket_ids,
          t_idx, tickets, reported, ticket_id, card_data, binary_data>>

cardVars == <<grid, col, row_idx, cols_to_fill, cols_to_empty>>
batchVars == <<num_tickets, ticket_ids, t_idx, tickets, reported>>
qrVars == <<ticket_id, card_data, binary_data>>

-----------------------------------------------------------------------------
(* Bounds of the model *)

\* A column is filled with every outcome of shuffle and sample when it has at
\* most this many available numbers.
MaxFreeAvail == 3

\* random.sample over columns returns k columns that lie within
\* k + SampleSlack consecutive places of the population (see sample_sets).
SampleSlack == 1

\* Size of the ticket id space in the model (the program's is 9000).
IdSpace == 4

\* Largest requested ticket count.
MaxTickets == 5

-----------------------------------------------------------------------------
(* Program constants *)

NUM_ROWS == 3
NUM_COLS == 9
ROW_NUMBERS == 5
ID_MIN == 1000

Rows == 0 .. (NUM_ROWS - 1)
Cols == 0 .. (NUM_COLS - 1)

\* The shipped EXCLUDED_NUMBERS.
EXCLUDED_NUMBERS == {20, 72}

column_ranges ==
    << <<1, 9>>, <<10, 19>>, <<20, 29>>, <<30, 39>>, <<40, 49>>,
       <<50, 59>>, <<60, 69>>, <<70, 79>>, <<80, 90>> >>

get_column_range(c) ==
    << <<1, 9>>, <<10, 19>>, <<20, 29>>, <<30, 39>>, <<40, 49>>,
       <<50, 59>>, <<60, 69>>, <<70, 79>>, <<80, 90>> >>[c + 1]

-----------------------------------------------------------------------------
(* Helpers *)

Min(a, b) == IF a < b THEN a ELSE b

\* Mutant of InjSeqs: elements drawn with replacement.
AnySeqs(S, k) == [1 .. k -> S]

\* The injective sequences of length k over S: the lists of k distinct elements.
InjSeqs(S, k) ==
    {s \in [1 .. k -> S] : \A i, j \in 1 .. k : i # j => s[i] # s[j]}

\* The elements of a set of numbers as an ascending list.
RECURSIVE Ascending(_)
Ascending(S) ==
    IF S = {} THEN <<>>
    ELSE LET m == CHOOSE x \in S : \A y \in S : x <= y
         IN <<m>> \o Ascending(S \ {m})

Reverse(s) == [i \in 1 .. Len(s) |-> s[Len(s) + 1 - i]]

\* list.sort() on a list of numbers (insertion sort).
RECURSIVE Insert(_, _)
Insert(x, s) ==
    IF s = <<>> THEN <<x>>
    ELSE IF x <= s[1] THEN <<x>> \o s ELSE <<s[1]>> \o Insert(x, Tail(s))

\* Mutant of SortList: the list is left as it is.
SortListNone(s) == s

RECURSIVE SortList(_)
SortList(s) == IF s = <<>> THEN <<>> ELSE Insert(s[1], SortList(Tail(s)))

\* The outcomes of random.sample(population, k) as sets, for a population of
\* columns whose order the caller does not read: the k-subsets whose members
\* lie within k + SampleSlack consecutive places of the population list.
sample_sets(population, k) ==
    LET lst == Ascending(population)
        w == Min(k + SampleSlack, Len(lst))
        window(i) == {lst[j] : j \in i .. (i + w - 1)}
    IN UNION {{T \in SUBSET window(i) : Cardinality(T) = k} :
                  i \in 1 .. (Len(lst) - w + 1)}

EmptyGrid == [r \in Rows |-> [c \in Cols |-> 0]]

-----------------------------------------------------------------------------
(* BritishBingoCard.generate: the column loop *)

\* Mutant of available_numbers: the exclusion filter is dropped.
available_numbers_unfiltered(c) ==
    Ascending(column_ranges[c + 1][1] .. column_ranges[c + 1][2])

\* [n for n in range(min_val, max_val + 1) if n not in EXCLUDED_NUMBERS]
available_numbers(c) ==
    Ascending({n \in column_ranges[c + 1][1] .. column_ranges[c + 1][2] :
                   n \notin excluded})

num_in_column(c) == Min(3, Len(available_numbers(c)))

\* The outcomes of random.shuffle(available_numbers) and
\* random.sample(range(3), num_in_column) that the column loop reads: the
\* first num_in_column shuffled numbers and the rows they go to.  Exhaustive
\* for a column with at most MaxFreeAvail available numbers; for a longer list
\* one outcome, the reversing shuffle with the rows sampled as 0, 1, 2.
RandomFill(c) ==
    LET avail == available_numbers(c)
        k == num_in_column(c)
    IN IF Len(avail) <= MaxFreeAvail
       THEN InjSeqs({avail[i] : i \in 1 .. Len(avail)}, k) \X InjSeqs(Rows, k)
       ELSE {<<SubSeq(Reverse(avail), 1, k), Ascending(Rows)>>}

\* for i, row in enumerate(rows_to_fill): self.grid[row][col] = available_numbers[i]
AssignColumn(g, c, shuffled, rows_to_fill) ==
    [r \in Rows |->
        [g[r] EXCEPT ![c] =
            IF \E i \in 1 .. Len(rows_to_fill) : rows_to_fill[i] = r
            THEN shuffled[CHOOSE i \in 1 .. Len(rows_to_fill) : rows_to_fill[i] = r]
            ELSE @]]

FillColumn ==
    /\ pc = "fill"
    /\ col < NUM_COLS
    /\ \E o \in RandomFill(col) : grid' = AssignColumn(grid, col, o[1], o[2])
    /\ col' = col + 1
    /\ pc' = IF col + 1 = NUM_COLS THEN "balance" ELSE "fill"
    /\ UNCHANGED <<entry, excluded, row_idx, cols_to_fill, cols_to_empty, batchVars, qrVars>>

-----------------------------------------------------------------------------
(* BritishBingoCard._balance_rows *)

num_count(row) == Cardinality({c \in Cols : row[c] # 0})

\* Mutant of available: the numbers already in the column are not left out.
available_ignoring_used(g, c) ==
    {n \in get_column_range(c)[1] .. get_column_range(c)[2] : n \notin excluded}

\* available = [n in the column's range, not in used_in_col, not excluded]
available(g, c) ==
    LET used_in_col == {g[r][c] : r \in Rows}
    IN {n \in get_column_range(c)[1] .. get_column_range(c)[2] :
            n \notin used_in_col /\ n \notin excluded}

\* for col in cols_to_fill: if available: grid[row_idx][col] = random.choice(available)
\* The grids the loop can end with, over the outcomes of random.choice.
RECURSIVE FillCells(_, _, _)
FillCells(g, r, to_fill) ==
    IF to_fill = {} THEN {g}
    ELSE LET c == CHOOSE x \in to_fill : TRUE
             rest == to_fill \ {c}
             choices == available(g, c)
         IN IF choices # {}
            THEN UNION {FillCells([g EXCEPT ![r][c] = n], r, rest) : n \in choices}
            ELSE FillCells(g, r, rest)

\* Mutant of EmptyCells: only the first of the sampled columns is blanked.
EmptyCellsFirst(g, r, to_empty) ==
    [g EXCEPT ![r] = [c \in Cols |->
        IF c \in to_empty /\ \A d \in to_empty : c <= d THEN 0 ELSE @[c]]]

\* for col in cols_to_empty: grid[row_idx][col] = 0
EmptyCells(g, r, to_empty) ==
    [g EXCEPT ![r] = [c \in Cols |-> IF c \in to_empty THEN 0 ELSE @[c]]]

\* One iteration of the row loop of _balance_rows.
BalanceRow ==
    /\ pc = "balance"
    /\ row_idx < NUM_ROWS
    /\ LET n == num_count(grid[row_idx])
           empty_cols == {c \in Cols : grid[row_idx][c] = 0}
           filled_cols == {c \in Cols : grid[row_idx][c] # 0}
       IN IF n < ROW_NUMBERS
          THEN /\ cols_to_fill' \in sample_sets(empty_cols, ROW_NUMBERS - n)
               /\ grid' \in FillCells(grid, row_idx, cols_to_fill')
               /\ cols_to_empty' = cols_to_empty
          ELSE IF n > ROW_NUMBERS
          THEN /\ cols_to_empty' \in sample_sets(filled_cols, n - ROW_NUMBERS)
               /\ grid' = EmptyCells(grid, row_idx, cols_to_empty')
               /\ cols_to_fill' = cols_to_fill
          ELSE UNCHANGED <<grid, cols_to_fill, cols_to_empty>>
    /\ row_idx' = row_idx + 1
    /\ pc' = IF row_idx + 1 = NUM_ROWS THEN "sort" ELSE "balance"
    /\ UNCHANGED <<entry, excluded, col, batchVars, qrVars>>

-----------------------------------------------------------------------------
(* BritishBingoCard._sort_columns, and the return of generate() *)

\* for row in range(3): a non-zero cell takes column_values[value_idx], and
\* value_idx advances; a blank stays blank.  The cells of rows row..2.
RECURSIVE PlaceSorted(_, _, _, _)
PlaceSorted(g, c, column_values, row) ==
    IF row = NUM_ROWS THEN <<>>
    ELSE IF g[row][c] # 0
    THEN <<column_values[1]>> \o PlaceSorted(g, c, Tail(column_values), row + 1)
    ELSE <<0>> \o PlaceSorted(g, c, column_values, row + 1)

NonZero(v) == v # 0

\* One iteration of the column loop: the column's cells, top to bottom.
sort_column(g, c) ==
    PlaceSorted(g, c, SortList(SelectSeq([i \in 1 .. NUM_ROWS |-> g[i - 1][c]], NonZero)), 0)

sort_columns(g) ==
    LET sorted == [c \in Cols |-> sort_column(g, c)]
    IN [r \in Rows |-> [c \in Cols |-> sorted[c][r + 1]]]

SortColumns ==
    /\ pc = "sort"
    /\ grid' = sort_columns(grid)
    /\ pc' = "returned"
    /\ UNCHANGED <<entry, excluded, col, row_idx, cols_to_fill, cols_to_empty, batchVars, qrVars>>

-----------------------------------------------------------------------------
(* Specification of one call of generate() on a fresh card *)

\* The exclusion set that keeps only the numbers of keep.
AllBut(keep) == (1 .. 90) \ keep

\* Exclusion sets tried:
\*   EXCLUDED_NUMBERS  the shipped set;
\*   Starved        two whole columns, five columns with a single number (the
\*                  ends of the ranges among them) and two with none: rows
\*                  with too few and with too many numbers;
\*   ColumnOut      the shipped set with one more column excluded whole and
\*                  another cut down to two numbers;
\*   FiveThin       every column keeps a number: four columns as shipped and
\*                  five with a single number.
Starved == AllBut({9, 10, 30, 49, 60} \cup (21 .. 29) \cup (80 .. 90))
ColumnOut == EXCLUDED_NUMBERS \cup (30 .. 39) \cup (61 .. 68)
FiveThin ==
    EXCLUDED_NUMBERS \cup (10 .. 18) \cup (31 .. 39) \cup (50 .. 58)
        \cup (61 .. 69) \cup (70 .. 78)

Configs == {EXCLUDED_NUMBERS, Starved, ColumnOut, FiveThin}

InitCard(cfg) ==
    /\ entry = "generate"
    /\ pc = "fill"
    /\ excluded = cfg
    /\ grid = EmptyGrid
    /\ col = 0
    /\ row_idx = 0
    /\ cols_to_fill = {}
    /\ cols_to_empty = {}
    /\ num_tickets = 0
    /\ ticket_ids = <<>>
    /\ t_idx = 0
    /\ tickets = <<>>
    /\ reported = -1
    /\ ticket_id = 0
    /\ card_data = <<>>
    /\ binary_data = <<>>

Init == \E cfg \in Configs : InitCard(cfg)

Next == FillColumn \/ BalanceRow \/ SortColumns

Spec == Init /\ [][Next]_vars

\* generate() with the shipped EXCLUDED_NUMBERS.
InitShipped == InitCard(EXCLUDED_NUMBERS)

SpecShipped == InitShipped /\ [][Next]_vars

-----------------------------------------------------------------------------
(* BritishBingoCard.to_flat_list and generate_qr_code *)

RowList(g, r) == [i \in 1 .. NUM_COLS |-> g[r][i - 1]]

\* for row in self.grid: result.extend(row)
RECURSIVE ExtendRows(_, _)
ExtendRows(g, r) ==
    IF r = NUM_ROWS THEN <<>> ELSE RowList(g, r) \o ExtendRows(g, r + 1)

to_flat_list(g) == ExtendRows(g, 0)

\* struct.pack('<H', v): two bytes, low byte first; struct.error outside 0..65535.
CanPackH(v) == v \in 0 .. 65535

\* Mutant of PackH: the high byte first.
PackHBigEndian(v) == <<(v \div 256) % 256, v % 256>>

PackH(v) == <<v % 256, (v \div 256) % 256>>

\* struct.pack('B', v): one byte; struct.error outside 0..255.
CanPackB(v) == v \in 0 .. 255
PackB(v) == <<v>>

\* for value in card_data: binary_data += struct.pack('B', value)
RECURSIVE PackCells(_)
PackCells(data) ==
    IF data = <<>> THEN <<>> ELSE PackB(data[1]) \o PackCells(Tail(data))

\* card.to_flat_list() followed by generate_qr_code(ticket_id, card_data), up
\* to the payload handed to the QR library.
GenerateQrCode ==
    /\ pc = "encode"
    /\ card_data' = to_flat_list(grid)
    /\ IF CanPackH(ticket_id) /\ \A i \in 1 .. Len(card_data') : CanPackB(card_data'[i])
       THEN /\ binary_data' = PackH(ticket_id) \o PackCells(card_data')
            /\ pc' = "encoded"
       ELSE /\ binary_data' = binary_data
            /\ pc' = "struct_error"
    /\ UNCHANGED <<entry, excluded, cardVars, batchVars, ticket_id>>

\* Ticket ids tried: the ends of the 16-bit range, both sides of the byte
\* boundary, four-digit ids, and one id that does not fit in 16 bits.
QrIds == {0, 1, 255, 256, 1000, 1234, 9999, 65535, 65536}

\* Grids tried: blank but for one cell, every cell and several values; every
\* cell different; and the largest value everywhere.
OneCell(r, c, v) == [EmptyGrid EXCEPT ![r][c] = v]
QrGrids ==
    {OneCell(r, c, v) : r \in Rows, c \in Cols, v \in {0, 1, 7, 89, 90}}
        \cup {[r \in Rows |-> [c \in Cols |-> 1 + r * NUM_COLS + c]],
              [r \in Rows |-> [c \in Cols |-> 90 - c * NUM_ROWS - r]],
              [r \in Rows |-> [c \in Cols |-> 90]]}

InitQr ==
    /\ entry = "generate_qr_code"
    /\ pc = "encode"
    /\ excluded = EXCLUDED_NUMBERS
    /\ grid \in QrGrids
    /\ col = NUM_COLS
    /\ row_idx = NUM_ROWS
    /\ cols_to_fill = {}
    /\ cols_to_empty = {}
    /\ num_tickets = 0
    /\ ticket_ids = <<>>
    /\ t_idx = 0
    /\ tickets = <<>>
    /\ reported = -1
    /\ ticket_id \in QrIds
    /\ card_data = <<>>
    /\ binary_data = <<>>

SpecQr == InitQr /\ [][GenerateQrCode]_vars

-----------------------------------------------------------------------------
(* generate_tickets_pdf: id allocation and the ticket loop *)

\* list(range(1000, 10000)), with IdSpace ids in place of 9000.
all_ids == [i \in 1 .. IdSpace |-> ID_MIN + i - 1]

\* Mutant of shuffled_ids: each place drawn from the whole list.
ids_with_repeats ==
    {[i \in 1 .. Len(all_ids) |-> all_ids[p[i]]] :
         p \in [1 .. Len(all_ids) -> 1 .. Len(all_ids)]}

\* The outcomes of random.shuffle(all_ids): the permutations of the list.
shuffled_ids ==
    {[i \in 1 .. Len(all_ids) |-> all_ids[p[i]]] :
         p \in InjSeqs(1 .. Len(all_ids), Len(all_ids))}

\* lst[:n] for n >= 0: the first n elements, or the whole list when shorter.
Slice(lst, n) == SubSeq(lst, 1, Min(n, Len(lst)))

AllocateIds ==
    /\ pc = "alloc"
    /\ \E ids \in shuffled_ids : ticket_ids' = Slice(ids, num_tickets)
    /\ tickets' = <<>>
    /\ t_idx' = 0
    /\ pc' = "loop"
    /\ UNCHANGED <<entry, excluded, cardVars, num_tickets, reported, qrVars>>

\* for ticket_id in ticket_ids: card = BritishBingoCard(), entering generate()
NewCard ==
    /\ pc = "loop"
    /\ t_idx < Len(ticket_ids)
    /\ grid' = EmptyGrid
    /\ col' = 0
    /\ row_idx' = 0
    /\ cols_to_fill' = {}
    /\ cols_to_empty' = {}
    /\ pc' = "fill"
    /\ UNCHANGED <<entry, excluded, batchVars, qrVars>>

\* card_data = card.to_flat_list(); tickets.append((ticket_id, card_data))
AppendTicket ==
    /\ entry = "generate_tickets_pdf"
    /\ pc = "returned"
    /\ tickets' = Append(tickets, <<ticket_ids[t_idx + 1], to_flat_list(grid)>>)
    /\ t_idx' = t_idx + 1
    /\ pc' = "loop"
    /\ UNCHANGED <<entry, excluded, cardVars, num_tickets, ticket_ids, reported, qrVars>>

\* The loop is over: the PDF and the CSV are written from tickets, and
\* "Total tickets generated: {num_tickets}" is printed.
WriteOutputs ==
    /\ pc = "loop"
    /\ t_idx = Len(ticket_ids)
    /\ reported' = num_tickets
    /\ pc' = "finished"
    /\ UNCHANGED <<entry, excluded, cardVars, num_tickets, ticket_ids, t_idx, tickets, qrVars>>

\* The batch is run with an exclusion set that leaves five whole columns, under
\* which every row is filled with exactly five numbers and generate() has one
\* outcome: the states of a batch are then those of its ids.
BatchExcluded ==
    EXCLUDED_NUMBERS \cup (10 .. 19) \cup (30 .. 39) \cup (50 .. 59) \cup (70 .. 79)

InitBatch ==
    /\ entry = "generate_tickets_pdf"
    /\ pc = "alloc"
    /\ excluded = BatchExcluded
    /\ grid = EmptyGrid
    /\ col = 0
    /\ row_idx = 0
    /\ cols_to_fill = {}
    /\ cols_to_empty = {}
    /\ num_tickets \in 0 .. MaxTickets
    /\ ticket_ids = <<>>
    /\ t_idx = 0
    /\ tickets = <<>>
    /\ reported = -1
    /\ ticket_id = 0
    /\ card_data = <<>>
    /\ binary_data = <<>>

NextBatch ==
    \/ AllocateIds
    \/ NewCard
    \/ FillColumn
    \/ BalanceRow
    \/ SortColumns
    \/ AppendTicket
    \/ WriteOutputs

SpecBatch == InitBatch /\ [][NextBatch]_vars

-----------------------------------------------------------------------------
(* Properties *)

\* The column ranges as the specification states them.
RangeLo(c) == IF c = 0 THEN 1 ELSE 10 * c
RangeHi(c) == IF c = 8 THEN 90 ELSE 10 * c + 9

Numbers(r) == {c \in 0 .. 8 : grid[r][c] # 0}
Blanks(r) == {c \in 0 .. 8 : grid[r][c] = 0}

\* C1: with the shipped exclusions, the grid generate() returns has exactly 5
\* non-zero and exactly 4 zero cells in each of its 3 rows.
C1_FivePerRow ==
    pc = "returned" =>
        \A r \in 0 .. 2 : Cardinality(Numbers(r)) = 5 /\ Cardinality(Blanks(r)) = 4

\* A returned card of the shipped configuration whose rows were blanked in
\* three different sets of columns.
C1_Witness ==
    /\ pc = "returned"
    /\ excluded = {20, 72}
    /\ \A r \in 0 .. 2 : Cardinality(Numbers(r)) = 5
    /\ Blanks(0) # Blanks(1) /\ Blanks(1) # Blanks(2) /\ Blanks(0) # Blanks(2)

\* C2: in a returned grid every non-zero value of column c lies in the
\* column's range, and the non-zero values of a column increase strictly from
\* row 0 to row 2.
C2_ColumnsRangedAscending ==
    pc = "returned" =>
        \A c \in 0 .. 8 :
            /\ \A r \in 0 .. 2 :
                   grid[r][c] # 0 => RangeLo(c) <= grid[r][c] /\ grid[r][c] <= RangeHi(c)
            /\ \A r1, r2 \in 0 .. 2 :
                   r1 < r2 /\ grid[r1][c] # 0 /\ grid[r2][c] # 0
                       => grid[r1][c] < grid[r2][c]

\* A returned grid with a column of three numbers and a column whose two
\* numbers have a blank between them.
C2_Witness ==
    /\ pc = "returned"
    /\ \E c \in 0 .. 8 : \A r \in 0 .. 2 : grid[r][c] # 0
    /\ \E c \in 0 .. 8 : grid[0][c] # 0 /\ grid[1][c] = 0 /\ grid[2][c] # 0

\* C3: no non-zero number is in more than one of the 27 cells, at any point of
\* generate(): during and after the column fill, during and after the row
\* balancing, and after the column sort.
C3_NoDuplicates ==
    LET cells == {rc \in (0 .. 2) \X (0 .. 8) : grid[rc[1]][rc[2]] # 0}
    IN Cardinality({grid[rc[1]][rc[2]] : rc \in cells}) = Cardinality(cells)

\* Column c was sampled for blanking in one row and for filling in another,
\* and a row other than row 0 has a number there.  Row 0 has its 5 numbers and
\* a blank in column c, so it is not the row that was filled: the number in
\* column c was put there for a row with a deficit.
Refilled(c) ==
    /\ c \in cols_to_empty
    /\ c \in cols_to_fill
    /\ grid[0][c] = 0
    /\ Cardinality(Numbers(0)) = 5
    /\ (grid[1][c] # 0 \/ grid[2][c] # 0)

\* The balancing pass is over and has filled a cell of a row with a deficit.
C3_Witness == pc = "sort" /\ \E c \in 0 .. 8 : Refilled(c)

\* C4: no excluded number is ever in a cell of the grid, whatever the
\* exclusion set.
C4_NoExcludedNumber ==
    \A r \in 0 .. 2 : \A c \in 0 .. 8 : grid[r][c] \notin excluded

\* Row 0 had too many numbers and lost the one in column c; row 1 had too few
\* and the balancing pass has just filled its cell in column c.
C4_Witness ==
    /\ pc = "balance"
    /\ row_idx = 2
    /\ \E c \in 0 .. 8 :
           c \in cols_to_empty /\ c \in cols_to_fill /\ grid[0][c] = 0 /\ grid[1][c] # 0

\* The payload read back: 2 bytes little-endian, then 27 bytes row by row.
DecodeId(b) == b[1] + 256 * b[2]
DecodeGrid(b) == [r \in 0 .. 2 |-> [c \in 0 .. 8 |-> b[3 + 9 * r + c]]]

\* C5: for a ticket id in 0..65535 and a grid with cells in 0..90 the payload
\* has 29 bytes, bytes 0-1 are the id little-endian, byte 2 + 9r + c is
\* grid[r][c], and decoding the payload returns the id and the grid.
C5_PayloadRoundTrip ==
    (pc # "encode" /\ ticket_id \in 0 .. 65535
         /\ \A r \in 0 .. 2 : \A c \in 0 .. 8 : grid[r][c] \in 0 .. 90) =>
        /\ pc = "encoded"
        /\ Len(binary_data) = 29
        /\ \A i \in 1 .. 29 : binary_data[i] \in 0 .. 255
        /\ binary_data[1] = ticket_id % 256
        /\ binary_data[2] = ticket_id \div 256
        /\ \A r \in 0 .. 2 : \A c \in 0 .. 8 : binary_data[2 + 9 * r + c + 1] = grid[r][c]
        /\ DecodeId(binary_data) = ticket_id
        /\ DecodeGrid(binary_data) = grid

\* The example of the specification: id 1234 and a grid blank but for a 7 in
\* cell 0 give the bytes D2 04 07 00 ... 00.
C5_Witness ==
    /\ pc = "encoded"
    /\ ticket_id = 1234
    /\ grid[0][0] = 7
    /\ binary_data = <<210, 4, 7>> \o [i \in 1 .. 26 |-> 0]

\* C6: the ids of the tickets of a batch are pairwise distinct, after each
\* ticket is appended.
C6_IdsDistinct ==
    /\ \A i, j \in 1 .. Len(tickets) : i # j => tickets[i][1] # tickets[j][1]
    /\ \A i, j \in 1 .. Len(ticket_ids) : i # j => ticket_ids[i] # ticket_ids[j]

\* A batch of at least three tickets has been built.
C6_Witness == Len(tickets) >= 3 /\ pc = "finished"

\* C7: when the requested count exceeds the size of the id space, the batch
\* builder fails at once: no ticket is built, the run does not finish with a
\* batch, and a finished batch is never smaller than requested.
C7_CapacityError ==
    /\ (entry = "generate_tickets_pdf" /\ num_tickets > Len(all_ids))
           => (tickets = <<>> /\ pc # "finished")
    /\ pc = "finished" => Len(tickets) = num_tickets

\* Every number of some column's range is excluded.
ColumnStarved ==
    \E c \in 0 .. 8 : \A n \in RangeLo(c) .. RangeHi(c) : n \in excluded

\* C8: when the exclusions empty some column's range, generate() fails before
\* any cell is assigned and never returns a grid.
C8_ConfigurationError ==
    (entry = "generate" /\ ColumnStarved) => (grid = EmptyGrid /\ pc # "returned")

\* A number of column c's range that is neither excluded nor in column c of g.
Spare(g, c) ==
    \E n \in RangeLo(c) .. RangeHi(c) :
        n \notin excluded /\ \A r \in 0 .. 2 : g[r][c] # n

CountIn(g, r) == Cardinality({c \in 0 .. 8 : g[r][c] # 0})

C10_NoBlankColumn ==
    pc = "returned" => \A c \in 0 .. 8 : \E r \in 0 .. 2 : grid[r][c] # 0

====
